---- MODULE Spec2Model ----
(***************************************************************************)
(* Model of PKIService (services/flask-backend/app/services/pki.py): the   *)
(* CA key pair in memory and in <ca_dir>/ca.crt, <ca_dir>/ca.key, the      *)
(* load-or-create initialisation, regenerate_ca, leaf issuance,            *)
(* verify_certificate, get_cert_info and the accessors.  One service       *)
(* process works on one CA directory; the process may stop at any          *)
(* statement and be started again, and its threads share the one service;  *)
(* a second process may construct its own service on the same directory.   *)
(* Beside it, EVEIngestionService (services/eve_ingestion.py): start(),    *)
(* stop(), the tail thread, _process_line and _flush_buffer.               *)
(***************************************************************************)
EXTENDS Integers, FiniteSets, Sequences, TLC

VARIABLES
    pc,        \* statement the service process is at ("down": no process)
    mode,      \* caller of create_ca: "init" (__init__) or "regen" (regenerate_ca)
    ca_cn,     \* self.ca_cn, the configured CA common name
    ca_cert,   \* self._ca_cert
    ca_key,    \* self._ca_key
    crt_file,  \* contents of <ca_dir>/ca.crt
    key_file,  \* contents of <ca_dir>/ca.key
    key_mode,  \* permission mode of <ca_dir>/ca.key
    now,       \* datetime.utcnow()
    next_key,  \* number of RSA keys generated so far (fresh keys are numbered)
    held,      \* certificates returned to callers so far
    op,        \* the last completed call and what it returned
    pre,       \* the files as they were when the service was constructed
    made,      \* what the caller captured right after the last completed create
    origin,    \* how the CA in memory came about
    th,        \* the calls other threads of the process are in
    peer,      \* a second process constructing a PKIService on the directory
    eve,       \* the fields of the EVEIngestionService object
    tails,     \* where each tail thread of the ingestion service is
    caller,    \* where the thread calling start() and stop() is
    bulk       \* the bulk requests made to the document store so far

\* the ingestion service, which shares nothing with the PKI service
other == <<eve, tails, caller, bulk>>

vars == <<pc, mode, ca_cn, ca_cert, ca_key, crt_file, key_file, key_mode, now,
          next_key, held, op, pre, made, origin, th, peer, eve, tails, caller,
          bulk>>



----------------------------------------------------------------------------
(* Bounds of the model. *)

\* the clock runs from 0 to MaxTime
MaxTime == 2
\* CA keys generated over a run (each create_ca generates one)
MaxKeys == 2
\* leaf certificates issued over a run
MaxLeaf == 2
\* ticks of the clock that make one day of timedelta(days=...)
DayLen == 1
\* self.ca_validity_days
CaDays == 2
\* most ticks of the clock between the two utcnow() reads of one builder
MaxLag == 3

\* Thread objects start() creates at most
MaxTails == 2
\* self.batch_size
BatchSize == 2
\* lines in eve.json
MaxLines == 3
\* EVEAlert objects parse_eve_event creates at most
MaxAlerts == 3

\* common names a deployment may configure for the CA
Names == {"Cerberus Root CA", "Test Root CA"}
\* hostnames asked for (non-empty)
Hostnames == {"vpn.example.com"}
\* validity_days asked for (> 0)
Days == {1, 2}

----------------------------------------------------------------------------
(* Values. *)

\* Python's None for _ca_cert; key 0 is None for _ca_key
NoCert == [t |-> "none"]
NoKey == 0
\* leaf keys are numbered apart from CA keys
LeafKey(n) == 100 + n
\* a key that belongs to nobody in this deployment
ForeignKey == 99

\* file contents
Absent == [t |-> "absent"]
Empty == [t |-> "empty"]
Garbage == [t |-> "garbage"]
\* a PEM block cut off before its END line
Truncated == [t |-> "truncated"]

\* a save that writes the DER bytes where the PEM text belongs
CertPem_der(cert) == [t |-> "DER", der |-> cert]

\* cert.public_bytes(Encoding.PEM)
CertPem(cert) == [t |-> "CERTIFICATE", der |-> cert]
\* key.private_bytes(PEM, TraditionalOpenSSL, NoEncryption)
KeyPem(key) == [t |-> "RSA PRIVATE KEY", der |-> key]

\* x509.load_pem_x509_certificate: the certificate, or "raise"
load_pem_x509_certificate(data) ==
    IF data.t = "CERTIFICATE" THEN [ok |-> TRUE, val |-> data.der]
    ELSE [ok |-> FALSE, val |-> NoCert]

\* a key load that takes whatever the file holds
load_pem_private_key_lenient(data) ==
    IF data.t = "RSA PRIVATE KEY" THEN [ok |-> TRUE, val |-> data.der]
    ELSE [ok |-> TRUE, val |-> NoKey]

\* serialization.load_pem_private_key(password=None): the key, or "raise"
load_pem_private_key(data) ==
    IF data.t = "RSA PRIVATE KEY" THEN [ok |-> TRUE, val |-> data.der]
    ELSE [ok |-> FALSE, val |-> NoKey]

\* os.path.exists
exists(file) == file.t # "absent"

\* hashlib.sha256(cert DER).hexdigest(): one digest per certificate
get_ca_fingerprint_of(cert) == [sha256 |-> cert]

\* x509.random_serial_number(): 159 random bits, never the same twice (two
\* draws collide with probability 2^-159); the draw made for the certificate
\* of key number n
random_serial_number(n) == 1000 + n

----------------------------------------------------------------------------
(* Certificates. *)

\* x509.Name: the attributes a name carries ("" for an attribute it lacks)
Name(c, o, cn) == [c |-> c, o |-> o, cn |-> cn]

\* the CA subject of create_ca: C=US, O=self.ca_org, CN=self.ca_cn
CaSubject(cn) == Name("US", "Cerberus NGFW", cn)

\* the certificate create_ca builds and signs with the new CA key
CaCertificate(cn, key, t1, t2) ==
    [t |-> "cert", subject |-> CaSubject(cn), issuer |-> CaSubject(cn),
     pub |-> key, signer |-> key, serial |-> random_serial_number(key),
     nb |-> t1, na |-> t2 + CaDays * DayLen,
     bc |-> "ca=true,path_length=1", ku |-> "keyCertSign,cRLSign",
     eku |-> "", san |-> ""]

\* the certificate generate_server_cert builds and signs with self._ca_key
ServerCertificate(hostname, days, leafkey, cacert, cakey, t1, t2) ==
    [t |-> "cert", subject |-> Name("", "", hostname), issuer |-> cacert.subject,
     pub |-> leafkey, signer |-> cakey, serial |-> random_serial_number(leafkey),
     nb |-> t1, na |-> t2 + days * DayLen,
     bc |-> "", ku |-> "digitalSignature,keyEncipherment",
     eku |-> "serverAuth", san |-> hostname]

\* the subject generate_client_cert builds: CN, and emailAddress when the
\* email argument is truthy
ClientSubject(common_name, email) ==
    IF email = "" THEN Name("", "", common_name)
    ELSE [c |-> "", o |-> "", cn |-> common_name, email |-> email]

\* the certificate generate_client_cert builds and signs with self._ca_key
ClientCertificate(common_name, email, days, leafkey, cacert, cakey, t1, t2) ==
    [t |-> "cert", subject |-> ClientSubject(common_name, email),
     issuer |-> cacert.subject,
     pub |-> leafkey, signer |-> cakey, serial |-> random_serial_number(leafkey),
     nb |-> t1, na |-> t2 + days * DayLen,
     bc |-> "", ku |-> "digitalSignature,keyEncipherment",
     eku |-> "clientAuth", san |-> ""]

\* a certificate some other authority signed, naming `issuer` as its issuer
ForeignCertificate(issuer, t1) ==
    [t |-> "cert", subject |-> Name("", "", "intruder"), issuer |-> issuer,
     pub |-> ForeignKey, signer |-> ForeignKey,
     serial |-> random_serial_number(ForeignKey),
     nb |-> t1, na |-> t1 + DayLen,
     bc |-> "", ku |-> "digitalSignature,keyEncipherment",
     eku |-> "clientAuth", san |-> ""]

\* a certificate of some other authority under the names given
NamedCertificate(subject, issuer, t1) ==
    [ForeignCertificate(issuer, t1) EXCEPT !.subject = subject]

----------------------------------------------------------------------------
(* get_cert_info and _cert_to_info. *)

HexDigits ==
    <<"0", "1", "2", "3", "4", "5", "6", "7", "8", "9", "a", "b", "c", "d",
      "e", "f">>

\* format(n, "x"): the hexadecimal digits of n, most significant first
RECURSIVE Hex(_)
Hex(n) ==
    IF n < 16 THEN <<HexDigits[n + 1]>>
    ELSE Append(Hex(n \div 16), HexDigits[(n % 16) + 1])

\* name.get_attributes_for_oid(NameOID.COMMON_NAME): the list of its CN values
get_attributes_for_oid(name) == IF name.cn = "" THEN <<>> ELSE <<name.cn>>

\* bc.value.ca of the Basic Constraints extension, ExtensionNotFound caught
is_ca_of(cert) == IF cert.bc = "" THEN FALSE ELSE cert.bc = "ca=true,path_length=1"

\* a _cert_to_info that reports every certificate as a CA certificate
cert_to_info_all_ca(cert) ==
    [ok |-> TRUE, err |-> "",
     val |-> [t |-> "info", subject_cn |-> cert.subject.cn,
              issuer_cn |-> cert.issuer.cn, serial_number |-> Hex(cert.serial),
              not_before |-> cert.nb, not_after |-> cert.na,
              fingerprint_sha256 |-> get_ca_fingerprint_of(cert),
              is_ca |-> TRUE]]

\* _cert_to_info(cert): the CertificateInfo, or the exception the [0] on an
\* empty attribute list raises
cert_to_info(cert) ==
    LET subject_cns == get_attributes_for_oid(cert.subject)
        issuer_cns == get_attributes_for_oid(cert.issuer)
    IN  IF cert = NoCert
        THEN [ok |-> FALSE, err |-> "AttributeError", val |-> NoCert]
        ELSE IF subject_cns = <<>> \/ issuer_cns = <<>>
        THEN [ok |-> FALSE, err |-> "IndexError", val |-> NoCert]
        ELSE [ok |-> TRUE, err |-> "",
              val |-> [t |-> "info", subject_cn |-> subject_cns[1],
                       issuer_cn |-> issuer_cns[1],
                       serial_number |-> Hex(cert.serial),
                       not_before |-> cert.nb, not_after |-> cert.na,
                       fingerprint_sha256 |-> get_ca_fingerprint_of(cert),
                       is_ca |-> is_ca_of(cert)]]

\* get_cert_info(cert_pem): load_pem_x509_certificate raises ValueError on
\* what is no PEM certificate, and nothing here catches it
get_cert_info_of(cert_pem) ==
    LET parsed == load_pem_x509_certificate(cert_pem)
    IN  IF ~parsed.ok THEN [ok |-> FALSE, err |-> "ValueError", val |-> NoCert]
        ELSE cert_to_info(parsed.val)

----------------------------------------------------------------------------
(* verify_certificate. *)

\* the arguments verify_certificate passes to public_key().verify
VerifyCallArgs ==
    <<"cert.signature", "cert.tbs_certificate_bytes",
      "cert.signature_algorithm_parameters">>

\* the parameters RSAPublicKey.verify requires, all positional, none defaulted
RsaVerifyParams == <<"signature", "data", "padding", "algorithm">>

\* self._ca_cert.public_key().verify(...) on the RSA key of the CA: "ok" when
\* the signature is one of that key, "raise" otherwise (InvalidSignature), and
\* "raise" (TypeError) when the call does not bind every required parameter
public_key_verify(cacert, cert, args) ==
    IF Len(args) # Len(RsaVerifyParams) THEN "raise"
    ELSE IF cert.signer = cacert.pub THEN "ok"
    ELSE "raise"

\* the body of the try block: "true", "false", or "raise"
verify_try(cert_pem, cacert, t) ==
    LET parsed == load_pem_x509_certificate(cert_pem)
        cert == parsed.val
    IN  IF ~parsed.ok THEN "raise"
        ELSE IF cacert = NoCert THEN "raise"
        ELSE IF cert.issuer # cacert.subject THEN "false"
        ELSE IF public_key_verify(cacert, cert, VerifyCallArgs) = "raise" THEN "raise"
        ELSE IF t < cert.nb \/ t > cert.na THEN "false"
        ELSE "true"

\* verify_certificate without its except clause: what the try block raises
\* reaches the caller
verify_certificate_uncaught(cert_pem, cacert, t) == verify_try(cert_pem, cacert, t)

\* except Exception: return False
verify_certificate(cert_pem, cacert, t) ==
    IF verify_try(cert_pem, cacert, t) = "raise" THEN "false"
    ELSE verify_try(cert_pem, cacert, t)

----------------------------------------------------------------------------
(* The state after nothing has run: an empty CA directory, no process. *)

NoOp == [kind |-> "none", res |-> "", via |-> "", arg |-> Absent, out |-> NoCert]

\* request threads of the process that serve calls on the one PKIService
Threads == {1, 2}

\* a thread that is in no call
IdleThread ==
    [at |-> "idle", call |-> "none", arg |-> Absent, seen |-> NoCert,
     res |-> Absent, by |-> NoCert, when |-> "none"]

\* the fields of a second process that has constructed nothing
NoPeer ==
    [pc |-> "down", ca_cert |-> NoCert, ca_key |-> NoKey,
     pre |-> [crt |-> Absent, key |-> Absent]]

\* parse_eve_event(line) returning None: json.loads raised JSONDecodeError
None == [t |-> "None"]

\* a thread that start() has not created yet
NoTail ==
    [at |-> "unborn", pos |-> 0, alert |-> None, body |-> <<>>, back |-> "none"]

Snapshot == [crt |-> crt_file, key |-> key_file, intact |-> made.intact]

Init ==
    /\ pc = "down"
    /\ mode = "none"
    /\ ca_cn = "Cerberus Root CA"
    /\ ca_cert = NoCert
    /\ ca_key = NoKey
    /\ crt_file = Absent
    /\ key_file = Absent
    /\ key_mode = "absent"
    /\ now = 0
    /\ next_key = 0
    /\ held = {}
    /\ op = NoOp
    /\ pre = [crt |-> Absent, key |-> Absent, intact |-> FALSE]
    /\ made = [fp |-> get_ca_fingerprint_of(NoCert), intact |-> FALSE]
    /\ origin = "none"
    /\ th = [t \in Threads |-> IdleThread]
    /\ peer = NoPeer
    /\ eve = [running |-> FALSE, thread |-> 0, event_buffer |-> <<>>,
              file_position |-> 0]
    /\ tails = [t \in 1..MaxTails |-> NoTail]
    /\ caller = [at |-> "idle", body |-> <<>>, did |-> "none"]
    /\ bulk = [alerts |-> 0, sent |-> [by \in 0..MaxTails |-> {}], twice |-> {},
               failed |-> {}]

----------------------------------------------------------------------------
(* __init__ and _load_or_create_ca. *)

\* PKIService(ca_dir, ca_cn, ...): the fields are set (the deployment keeps
\* its configured names from one start to the next), the directory is made
construct ==
    /\ pc = "down"
    /\ ca_cn' = ca_cn
    /\ ca_cert' = NoCert
    /\ ca_key' = NoKey
    /\ pc' = "load_or_create"
    /\ mode' = "init"
    /\ pre' = Snapshot
    /\ op' = [NoOp EXCEPT !.kind = "construct"]
    /\ origin' = "none"
    /\ UNCHANGED <<other, peer, th, crt_file, key_file, key_mode, now, next_key, held, made>>

\* if os.path.exists(ca_cert_path) and os.path.exists(ca_key_path)
load_or_create_ca ==
    /\ pc = "load_or_create"
    /\ pc' = IF exists(crt_file) /\ exists(key_file) THEN "load_crt" ELSE "gen_key"
    /\ UNCHANGED <<other, peer, th, mode, ca_cn, ca_cert, ca_key, crt_file, key_file, key_mode,
                   now, next_key, held, op, pre, made, origin>>

\* _load_ca, first with block: self._ca_cert = load_pem_x509_certificate(...)
load_ca_cert ==
    /\ pc = "load_crt"
    /\ LET r == load_pem_x509_certificate(crt_file)
       IN  IF r.ok THEN ca_cert' = r.val /\ pc' = "load_key"
           ELSE ca_cert' = ca_cert /\ pc' = "load_except"
    /\ UNCHANGED <<other, peer, th, mode, ca_cn, ca_key, crt_file, key_file, key_mode, now,
                   next_key, held, op, pre, made, origin>>

\* _load_ca, second with block: self._ca_key = load_pem_private_key(...);
\* then _load_or_create_ca returns and __init__ is done
load_ca_key ==
    /\ pc = "load_key"
    /\ LET r == load_pem_private_key(key_file)
       IN  IF r.ok
           THEN /\ ca_key' = r.val
                /\ pc' = "ready"
                /\ mode' = "none"
                /\ op' = [NoOp EXCEPT !.kind = "init", !.via = "load"]
                /\ origin' = "load"
           ELSE /\ ca_key' = ca_key
                /\ pc' = "load_except"
                /\ UNCHANGED <<mode, op, origin>>
    /\ UNCHANGED <<other, peer, th, ca_cn, ca_cert, crt_file, key_file, key_mode, now,
                   next_key, held, pre, made>>

\* an except clause that returns instead of falling through to _create_ca
load_except_returns ==
    /\ pc = "load_except"
    /\ pc' = "ready"
    /\ mode' = "none"
    /\ op' = [NoOp EXCEPT !.kind = "init", !.via = "load"]
    /\ origin' = "load"
    /\ UNCHANGED <<other, peer, th, ca_cn, ca_cert, ca_key, crt_file, key_file, key_mode,
                   now, next_key, held, pre, made>>

\* an except clause that hands the load error to the caller of __init__
load_except_raises ==
    /\ pc = "load_except"
    /\ pc' = "down"
    /\ mode' = "none"
    /\ ca_cert' = NoCert
    /\ ca_key' = NoKey
    /\ op' = [NoOp EXCEPT !.kind = "init", !.res = "raise", !.via = "load"]
    /\ origin' = "none"
    /\ UNCHANGED <<other, peer, th, ca_cn, crt_file, key_file, key_mode, now, next_key,
                   held, pre, made>>

\* except Exception: pass, and on to self._create_ca()
load_except ==
    /\ pc = "load_except"
    /\ pc' = "gen_key"
    /\ UNCHANGED <<other, peer, th, mode, ca_cn, ca_cert, ca_key, crt_file, key_file, key_mode,
                   now, next_key, held, op, pre, made, origin>>

----------------------------------------------------------------------------
(* _create_ca and _save_ca, statement by statement. *)

CreateSteps ==
    {"gen_key", "build_cert", "open_crt", "write_crt", "open_key", "write_key",
     "chmod"}

\* self._ca_key = rsa.generate_private_key(65537, 4096): a key never seen before
create_ca_key ==
    /\ pc = "gen_key"
    /\ next_key < MaxKeys
    /\ ca_key' = next_key + 1
    /\ next_key' = next_key + 1
    /\ pc' = "build_cert"
    /\ UNCHANGED <<other, peer, th, mode, ca_cn, ca_cert, crt_file, key_file, key_mode, now,
                   held, op, pre, made, origin>>

\* a _create_ca that builds a certificate only when the service holds none
create_ca_cert_once ==
    /\ pc = "build_cert"
    /\ ca_cert' = IF ca_cert = NoCert THEN CaCertificate(ca_cn, ca_key, now, now)
                  ELSE ca_cert
    /\ pc' = "open_crt"
    /\ UNCHANGED <<other, peer, th, mode, ca_cn, ca_key, crt_file, key_file, key_mode, now,
                   next_key, held, op, pre, made, origin>>

\* a _create_ca that takes the subject name over from the certificate the
\* service holds instead of building it from the configured names
create_ca_cert_same_subject ==
    /\ pc = "build_cert"
    /\ ca_cert' = IF ca_cert = NoCert
                  THEN CaCertificate(ca_cn, ca_key, now, now)
                  ELSE [CaCertificate(ca_cn, ca_key, now, now)
                            EXCEPT !.subject = ca_cert.subject,
                                   !.issuer = ca_cert.subject]
    /\ pc' = "open_crt"
    /\ UNCHANGED <<other, peer, th, mode, ca_cn, ca_key, crt_file, key_file,
                   key_mode, now, next_key, held, op, pre, made, origin>>

\* self._ca_cert = CertificateBuilder()...sign(self._ca_key, SHA256): utcnow()
\* is read for not_valid_before and again for not_valid_after, here within
\* one tick of the clock
create_ca_cert ==
    /\ pc = "build_cert"
    /\ ca_cert' = CaCertificate(ca_cn, ca_key, now, now)
    /\ pc' = "open_crt"
    /\ UNCHANGED <<other, peer, th, mode, ca_cn, ca_key, crt_file, key_file, key_mode, now,
                   next_key, held, op, pre, made, origin>>

\* _save_ca: open(self.ca_cert_path, "wb") creates or truncates ca.crt
save_ca_open_crt ==
    /\ pc = "open_crt"
    /\ crt_file' = Empty
    /\ made' = [made EXCEPT !.intact = FALSE]
    /\ pc' = "write_crt"
    /\ UNCHANGED <<other, peer, th, mode, ca_cn, ca_cert, ca_key, key_file, key_mode, now,
                   next_key, held, op, pre, origin>>

\* _save_ca: f.write(self._ca_cert.public_bytes(PEM)) and the file is closed
save_ca_write_crt ==
    /\ pc = "write_crt"
    /\ crt_file' = CertPem(ca_cert)
    /\ pc' = "open_key"
    /\ UNCHANGED <<other, peer, th, mode, ca_cn, ca_cert, ca_key, key_file, key_mode, now,
                   next_key, held, op, pre, made, origin>>

\* _save_ca: open(self.ca_key_path, "wb") creates ca.key with the mode the
\* umask gives, or truncates it and keeps the mode it has
save_ca_open_key ==
    /\ pc = "open_key"
    /\ key_file' = Empty
    /\ key_mode' = IF exists(key_file) THEN key_mode ELSE "umask"
    /\ pc' = "write_key"
    /\ UNCHANGED <<other, peer, th, mode, ca_cn, ca_cert, ca_key, crt_file, now,
                   next_key, held, op, pre, made, origin>>

\* _save_ca: f.write(self._ca_key.private_bytes(...)) and the file is closed
save_ca_write_key ==
    /\ pc = "write_key"
    /\ key_file' = KeyPem(ca_key)
    /\ pc' = "chmod"
    /\ UNCHANGED <<other, peer, th, mode, ca_cn, ca_cert, ca_key, crt_file, key_mode, now,
                   next_key, held, op, pre, made, origin>>

\* a _save_ca that never calls os.chmod
save_ca_no_chmod(m) == m

\* the mode _save_ca leaves ca.key with: os.chmod(self.ca_key_path, 0o600)
save_ca_chmod(m) == "0600"

\* _save_ca: os.chmod, after which _save_ca and _create_ca return; __init__
\* is then done, and regenerate_ca returns get_ca_info()
save_ca_done ==
    /\ pc = "chmod"
    /\ key_mode' = save_ca_chmod(key_mode)
    /\ pc' = "ready"
    /\ mode' = "none"
    /\ op' = IF mode = "init"
             THEN [NoOp EXCEPT !.kind = "init", !.via = "create"]
             ELSE [NoOp EXCEPT !.kind = "regenerate_ca", !.via = "create",
                               !.arg = CertPem(ca_cert)]
    /\ origin' = IF mode = "init" THEN "create" ELSE "regenerate"
    /\ made' = [fp |-> get_ca_fingerprint_of(ca_cert), intact |-> TRUE]
    /\ UNCHANGED <<other, peer, th, ca_cn, ca_cert, ca_key, crt_file, key_file, now,
                   next_key, held, pre>>

\* a statement of _create_ca or _save_ca raises (key generation, signing, a
\* file that cannot be opened or written, chmod): nothing catches it, so
\* __init__ raises and there is no service, or regenerate_ca raises and the
\* service goes on with whatever has been assigned so far
create_ca_raises ==
    /\ pc \in CreateSteps
    /\ IF mode = "init"
       THEN /\ pc' = "down"
            /\ ca_cert' = NoCert
            /\ ca_key' = NoKey
            /\ op' = [NoOp EXCEPT !.kind = "init", !.res = "raise", !.via = pc]
            /\ origin' = "none"
       ELSE /\ pc' = "ready"
            /\ UNCHANGED <<ca_cert, ca_key>>
            /\ op' = [NoOp EXCEPT !.kind = "regenerate_ca", !.res = "raise",
                                  !.via = pc]
            /\ origin' = "failed regenerate"
    /\ mode' = "none"
    /\ UNCHANGED <<other, peer, th, ca_cn, crt_file, key_file, key_mode, now, next_key, held,
                   pre, made>>

\* a statement of _create_ca or _save_ca raises inside regenerate_ca
regenerate_ca_raises == mode = "regen" /\ create_ca_raises

\* regenerate_ca is called: self._create_ca(); the call record keeps the
\* fingerprint the CA had when the call was made
regenerate_ca ==
    /\ pc = "ready"
    /\ pc' = "gen_key"
    /\ mode' = "regen"
    /\ op' = [NoOp EXCEPT !.kind = "regenerate_ca", !.res = "called",
                          !.out = get_ca_fingerprint_of(ca_cert)]
    /\ UNCHANGED <<other, peer, th, ca_cn, ca_cert, ca_key, crt_file, key_file, key_mode, now,
                   next_key, held, pre, made, origin>>

----------------------------------------------------------------------------
(* Issuing and verifying, on a constructed service. *)

\* the arguments of an issuing call
Request(kind, name, email, days) ==
    [kind |-> kind, name |-> name, email |-> email, days |-> days]

\* a generate_server_cert that keeps the key it generates in self._ca_key
generate_server_cert_clobbers ==
    /\ pc = "ready"
    /\ Cardinality(held) < MaxLeaf
    /\ \E hostname \in Hostnames, days \in Days :
        LET cert == ServerCertificate(hostname, days,
                        LeafKey(Cardinality(held)), ca_cert, ca_key, now, now)
        IN  /\ held' = held \cup {[cert |-> cert, by |-> ca_cert,
                                    key |-> LeafKey(Cardinality(held)), at |-> now,
                                    req |-> Request("server", hostname, "", days)]}
            /\ op' = [NoOp EXCEPT !.kind = "generate_server_cert",
                                  !.arg = CertPem(cert)]
    /\ ca_key' = LeafKey(Cardinality(held))
    /\ UNCHANGED <<other, peer, th, pc, mode, ca_cn, ca_cert, crt_file, key_file,
                   key_mode, now, next_key, pre, made, origin>>

\* generate_server_cert(hostname, validity_days): a fresh leaf key, a
\* certificate signed with self._ca_key, both returned as PEM
generate_server_cert ==
    /\ pc = "ready"
    /\ Cardinality(held) < MaxLeaf
    /\ \E hostname \in Hostnames, days \in Days :
        LET cert == ServerCertificate(hostname, days,
                        LeafKey(Cardinality(held)), ca_cert, ca_key, now, now)
        IN  /\ held' = held \cup {[cert |-> cert, by |-> ca_cert,
                                    key |-> LeafKey(Cardinality(held)), at |-> now,
                                    req |-> Request("server", hostname, "", days)]}
            /\ op' = [NoOp EXCEPT !.kind = "generate_server_cert",
                                  !.arg = CertPem(cert)]
    /\ UNCHANGED <<other, peer, th, pc, mode, ca_cn, ca_cert, ca_key, crt_file, key_file,
                   key_mode, now, next_key, pre, made, origin>>

\* what a caller may hand to verify_certificate: a certificate it was given,
\* the CA certificate, one signed by somebody else under either issuer name,
\* a key file, bytes that are no PEM, nothing
VerifyInputs ==
    {CertPem(h.cert) : h \in held}
        \cup {CertPem(ca_cert), KeyPem(ForeignKey), Garbage, Empty}
        \cup {CertPem(ForeignCertificate(CaSubject(cn), now)) : cn \in Names}

\* verify_certificate(cert_pem)
verify ==
    /\ pc = "ready"
    /\ \E cert_pem \in VerifyInputs :
        op' = [NoOp EXCEPT !.kind = "verify_certificate", !.arg = cert_pem,
                           !.res = verify_certificate(cert_pem, ca_cert, now)]
    /\ UNCHANGED <<other, peer, th, pc, mode, ca_cn, ca_cert, ca_key, crt_file, key_file,
                   key_mode, now, next_key, held, pre, made, origin>>

\* common names and e-mail addresses asked for by clients
CommonNames == {"alice"}
Emails == {"", "alice@example.com"}

\* generate_client_cert(common_name, email, validity_days): a fresh leaf key,
\* a certificate signed with self._ca_key, both returned as PEM
generate_client_cert ==
    /\ pc = "ready"
    /\ Cardinality(held) < MaxLeaf
    /\ \E common_name \in CommonNames, email \in Emails, days \in Days :
        LET cert == ClientCertificate(common_name, email, days,
                        LeafKey(Cardinality(held)), ca_cert, ca_key, now, now)
        IN  /\ held' = held \cup {[cert |-> cert, by |-> ca_cert,
                                    key |-> LeafKey(Cardinality(held)), at |-> now,
                                    req |-> Request("client", common_name, email, days)]}
            /\ op' = [NoOp EXCEPT !.kind = "generate_client_cert",
                                  !.arg = CertPem(cert)]
    /\ UNCHANGED <<other, peer, th, pc, mode, ca_cn, ca_cert, ca_key, crt_file, key_file,
                   key_mode, now, next_key, pre, made, origin>>

\* generate_server_cert or generate_client_cert raises and nothing in the
\* method catches it: x509.NameAttribute rejects an empty common name with
\* ValueError; rsa.generate_private_key or sign fails inside OpenSSL with
\* InternalError.  No pair is returned, nothing is tried again.
generate_cert_raises ==
    /\ pc = "ready"
    /\ \E kind \in {"generate_server_cert", "generate_client_cert"},
          name \in {"", "vpn.example.com"} :
        op' = [NoOp EXCEPT !.kind = kind, !.res = "raise",
                           !.via = IF name = "" THEN "ValueError"
                                   ELSE "InternalError"]
    /\ UNCHANGED <<other, peer, th, pc, mode, ca_cn, ca_cert, ca_key, crt_file, key_file,
                   key_mode, now, next_key, held, pre, made, origin>>

\* what a caller may hand to get_cert_info: a certificate it was given, the
\* CA certificate, a certificate whose subject or whose issuer has no CN, a
\* key file, bytes that are no PEM, a truncated PEM block, the empty string
ParseInputs ==
    {CertPem(h.cert) : h \in held}
        \cup {CertPem(ca_cert), KeyPem(ForeignKey), Garbage, Truncated, Empty}
        \cup {CertPem(NamedCertificate(Name("US", "ACME", ""),
                                       Name("US", "ACME", "ACME CA"), now)),
              CertPem(NamedCertificate(Name("", "", "intruder"),
                                       Name("US", "ACME", ""), now))}

\* get_cert_info(cert_pem)
get_cert_info ==
    /\ pc = "ready"
    /\ \E cert_pem \in ParseInputs :
        LET r == get_cert_info_of(cert_pem)
        IN  op' = [NoOp EXCEPT !.kind = "get_cert_info", !.arg = cert_pem,
                               !.res = IF r.ok THEN "ok" ELSE "raise",
                               !.via = r.err, !.out = r.val]
    /\ UNCHANGED <<other, peer, th, pc, mode, ca_cn, ca_cert, ca_key, crt_file, key_file,
                   key_mode, now, next_key, held, pre, made, origin>>

\* get_ca_info(): self._cert_to_info(self._ca_cert)
get_ca_info ==
    /\ pc = "ready"
    /\ LET r == cert_to_info(ca_cert)
       IN  op' = [NoOp EXCEPT !.kind = "get_ca_info",
                              !.res = IF r.ok THEN "ok" ELSE "raise",
                              !.via = r.err, !.out = r.val]
    /\ UNCHANGED <<other, peer, th, pc, mode, ca_cn, ca_cert, ca_key, crt_file, key_file,
                   key_mode, now, next_key, held, pre, made, origin>>

\* get_ca_cert_pem()
get_ca_cert_pem ==
    /\ pc = "ready"
    /\ op' = [NoOp EXCEPT !.kind = "get_ca_cert_pem", !.arg = CertPem(ca_cert)]
    /\ UNCHANGED <<other, peer, th, pc, mode, ca_cn, ca_cert, ca_key, crt_file, key_file,
                   key_mode, now, next_key, held, pre, made, origin>>

\* get_ca_fingerprint()
get_ca_fingerprint ==
    /\ pc = "ready"
    /\ op' = [NoOp EXCEPT !.kind = "get_ca_fingerprint",
                          !.out = get_ca_fingerprint_of(ca_cert)]
    /\ UNCHANGED <<other, peer, th, pc, mode, ca_cn, ca_cert, ca_key, crt_file, key_file,
                   key_mode, now, next_key, held, pre, made, origin>>

----------------------------------------------------------------------------
(* The two clock reads of a builder.  not_valid_before(datetime.utcnow()) and
   not_valid_after(datetime.utcnow() + timedelta(...)) read the wall clock one
   after the other; the process may be suspended or the clock set forward in
   between, and the code puts no bound on what passes.  Here a tick of the
   clock is one second and a day is scaled down to DayLen of them. *)

\* the latest reading of the clock
ClockEnd == MaxTime + MaxLag

\* _create_ca: the certificate is built with the second read `lag` ticks
\* after the first
create_ca_cert_late ==
    /\ pc = "build_cert"
    /\ \E lag \in 1..MaxLag :
        /\ now + lag <= ClockEnd
        /\ ca_cert' = CaCertificate(ca_cn, ca_key, now, now + lag)
        /\ now' = now + lag
    /\ pc' = "open_crt"
    /\ UNCHANGED <<other, peer, th, mode, ca_cn, ca_key, crt_file, key_file, key_mode,
                   next_key, held, op, pre, made, origin>>

\* generate_server_cert with the second read `lag` ticks after the first
generate_server_cert_late ==
    /\ pc = "ready"
    /\ Cardinality(held) < MaxLeaf
    /\ \E hostname \in Hostnames, days \in Days, lag \in 1..MaxLag :
        LET cert == ServerCertificate(hostname, days,
                        LeafKey(Cardinality(held)), ca_cert, ca_key, now, now + lag)
        IN  /\ now + lag <= ClockEnd
            /\ now' = now + lag
            /\ held' = held \cup {[cert |-> cert, by |-> ca_cert,
                                    key |-> LeafKey(Cardinality(held)), at |-> now,
                                    req |-> Request("server", hostname, "", days)]}
            /\ op' = [NoOp EXCEPT !.kind = "generate_server_cert",
                                  !.arg = CertPem(cert)]
    /\ UNCHANGED <<other, peer, th, pc, mode, ca_cn, ca_cert, ca_key, crt_file, key_file,
                   key_mode, next_key, pre, made, origin>>

\* generate_client_cert with the second read `lag` ticks after the first
generate_client_cert_late ==
    /\ pc = "ready"
    /\ Cardinality(held) < MaxLeaf
    /\ \E common_name \in CommonNames, email \in Emails, days \in Days,
          lag \in 1..MaxLag :
        LET cert == ClientCertificate(common_name, email, days,
                        LeafKey(Cardinality(held)), ca_cert, ca_key, now, now + lag)
        IN  /\ now + lag <= ClockEnd
            /\ now' = now + lag
            /\ held' = held \cup {[cert |-> cert, by |-> ca_cert,
                                    key |-> LeafKey(Cardinality(held)), at |-> now,
                                    req |-> Request("client", common_name, email, days)]}
            /\ op' = [NoOp EXCEPT !.kind = "generate_client_cert",
                                  !.arg = CertPem(cert)]
    /\ UNCHANGED <<other, peer, th, pc, mode, ca_cn, ca_cert, ca_key, crt_file, key_file,
                   key_mode, next_key, pre, made, origin>>

----------------------------------------------------------------------------
(* Calls made from several threads on the one service object.  A call reads
   self._ca_cert and self._ca_key where its code does, and other threads run
   between its statements; no lock is taken anywhere in the class. *)

\* the service object exists: constructed, and possibly inside regenerate_ca
Serving == pc = "ready" \/ (pc \in CreateSteps /\ mode = "regen")

\* the key a thread generates for the call it is in
ThreadKey(t) == LeafKey(MaxLeaf + t)

\* a boolean handed back to a thread
Returned(b) == [t |-> "bool", val |-> b]

\* the certificate an issuing call builds from what it read: the issuer name
\* from the CA certificate, the signature from the CA key
Issued(req, leafkey, cacert, cakey, t1, t2) ==
    IF req.kind = "server"
    THEN ServerCertificate(req.name, req.days, leafkey, cacert, cakey, t1, t2)
    ELSE ClientCertificate(req.name, req.email, req.days, leafkey, cacert,
                           cakey, t1, t2)

\* the requests threads make
Requests ==
    {Request("server", hostname, "", days) : hostname \in Hostnames, days \in {1}}
        \cup {Request("client", cn, email, days) :
                    cn \in CommonNames, email \in {""}, days \in {1}}

\* an issuing call that keeps the key it generated in self._ca_key
t_issue_begin_clobbers ==
    /\ Serving
    /\ \E t \in Threads, req \in Requests :
        /\ th[t].at = "idle"
        /\ th' = [th EXCEPT ![t] =
                    [IdleThread EXCEPT !.at = "sign",
                        !.call = IF req.kind = "server" THEN "generate_server_cert"
                                 ELSE "generate_client_cert",
                        !.arg = req, !.seen = ca_cert]]
        /\ ca_key' = ThreadKey(t)
    /\ UNCHANGED <<other, peer, pc, mode, ca_cn, ca_cert, crt_file, key_file,
                   key_mode, now, next_key, held, op, pre, made, origin>>

\* generate_server_cert / generate_client_cert up to issuer_name(
\* self._ca_cert.subject): the key is generated, self._ca_cert is read
t_issue_begin ==
    /\ Serving
    /\ \E t \in Threads, req \in Requests :
        /\ th[t].at = "idle"
        /\ th' = [th EXCEPT ![t] =
                    [IdleThread EXCEPT !.at = "sign",
                        !.call = IF req.kind = "server" THEN "generate_server_cert"
                                 ELSE "generate_client_cert",
                        !.arg = req, !.seen = ca_cert]]
    /\ UNCHANGED <<other, peer, pc, mode, ca_cn, ca_cert, ca_key, crt_file, key_file,
                   key_mode, now, next_key, held, op, pre, made, origin>>

\* ... .sign(self._ca_key, SHA256): self._ca_key is read, the pair is
\* returned; the thread notes the CA certificate current at that moment and
\* the statement regenerate_ca was at
t_issue_sign ==
    /\ Serving
    /\ \E t \in Threads :
        /\ th[t].at = "sign"
        /\ th' = [th EXCEPT ![t] =
                    [@ EXCEPT !.at = "done",
                        !.res = CertPem(Issued(th[t].arg, ThreadKey(t),
                                               th[t].seen, ca_key, now, now)),
                        !.by = ca_cert, !.when = pc]]
    /\ UNCHANGED <<other, peer, pc, mode, ca_cn, ca_cert, ca_key, crt_file, key_file,
                   key_mode, now, next_key, held, op, pre, made, origin>>

\* what threads hand to verify_certificate and get_cert_info: a certificate
\* some thread was just given, the CA certificate, bytes that are no PEM
ThreadInputs ==
    {th[u].res : u \in {v \in Threads : th[v].res.t = "CERTIFICATE"}}
        \cup {CertPem(ca_cert), Garbage}

\* the try block of verify_certificate on a CA certificate read twice: once
\* for the issuer comparison, once for public_key().verify
verify_reads(cert_pem, first, second, t) ==
    LET parsed == load_pem_x509_certificate(cert_pem)
        cert == parsed.val
    IN  IF ~parsed.ok THEN "raise"
        ELSE IF first = NoCert THEN "raise"
        ELSE IF cert.issuer # first.subject THEN "false"
        ELSE IF second = NoCert THEN "raise"
        ELSE IF public_key_verify(second, cert, VerifyCallArgs) = "raise" THEN "raise"
        ELSE IF t < cert.nb \/ t > cert.na THEN "false"
        ELSE "true"

\* verify_certificate up to the issuer comparison: cert_pem is parsed,
\* self._ca_cert.subject is read
t_verify_begin ==
    /\ Serving
    /\ \E t \in Threads, cert_pem \in ThreadInputs :
        /\ th[t].at = "idle"
        /\ th' = [th EXCEPT ![t] =
                    [IdleThread EXCEPT !.at = "check",
                        !.call = "verify_certificate",
                        !.arg = cert_pem, !.seen = ca_cert]]
    /\ UNCHANGED <<other, peer, pc, mode, ca_cn, ca_cert, ca_key, crt_file, key_file,
                   key_mode, now, next_key, held, op, pre, made, origin>>

\* self._ca_cert.public_key().verify(...), the validity window, the except
\* clause, and the boolean is returned
t_verify_check ==
    /\ Serving
    /\ \E t \in Threads :
        /\ th[t].at = "check"
        /\ LET r == verify_reads(th[t].arg, th[t].seen, ca_cert, now)
           IN  th' = [th EXCEPT ![t] =
                        [@ EXCEPT !.at = "done",
                            !.res = Returned(IF r = "raise" THEN "false" ELSE r),
                            !.by = ca_cert, !.when = pc]]
    /\ UNCHANGED <<other, peer, pc, mode, ca_cn, ca_cert, ca_key, crt_file, key_file,
                   key_mode, now, next_key, held, op, pre, made, origin>>

\* get_cert_info(cert_pem): it reads nothing of the service
t_get_cert_info ==
    /\ Serving
    /\ \E t \in Threads, cert_pem \in ThreadInputs :
        /\ th[t].at = "idle"
        /\ th' = [th EXCEPT ![t] =
                    [IdleThread EXCEPT !.at = "done", !.call = "get_cert_info",
                        !.arg = cert_pem,
                        !.res = [t |-> "info", r |-> get_cert_info_of(cert_pem)],
                        !.by = ca_cert, !.when = pc]]
    /\ UNCHANGED <<other, peer, pc, mode, ca_cn, ca_cert, ca_key, crt_file, key_file,
                   key_mode, now, next_key, held, op, pre, made, origin>>

\* what an accessor returns from the CA certificate it reads
AccessorResult(call, cacert) ==
    IF call = "get_ca_cert_pem" THEN CertPem(cacert)
    ELSE IF call = "get_ca_fingerprint"
    THEN [t |-> "hex", r |-> get_ca_fingerprint_of(cacert)]
    ELSE [t |-> "info", r |-> cert_to_info(cacert)]

\* get_ca_cert_pem(), get_ca_fingerprint(), get_ca_info(): one read of
\* self._ca_cert
t_accessor ==
    /\ Serving
    /\ \E t \in Threads,
          call \in {"get_ca_cert_pem", "get_ca_fingerprint", "get_ca_info"} :
        /\ th[t].at = "idle"
        /\ th' = [th EXCEPT ![t] =
                    [IdleThread EXCEPT !.at = "done", !.call = call,
                        !.res = AccessorResult(call, ca_cert),
                        !.by = ca_cert, !.when = pc]]
    /\ UNCHANGED <<other, peer, pc, mode, ca_cn, ca_cert, ca_key, crt_file, key_file,
                   key_mode, now, next_key, held, op, pre, made, origin>>

\* the caller takes the result; the thread is free for the next call
t_return ==
    /\ \E t \in Threads :
        /\ th[t].at = "done"
        /\ th' = [th EXCEPT ![t] = IdleThread]
    /\ UNCHANGED <<other, peer, pc, mode, ca_cn, ca_cert, ca_key, crt_file, key_file,
                   key_mode, now, next_key, held, op, pre, made, origin>>

----------------------------------------------------------------------------
(* The world around the service. *)

\* os.makedirs(ca_dir, exist_ok=True) raises (the path cannot be created):
\* __init__ raises before it looks for a CA
construct_raises ==
    /\ pc = "down"
    /\ op' = [NoOp EXCEPT !.kind = "init", !.res = "raise", !.via = "makedirs"]
    /\ UNCHANGED <<other, peer, th, pc, mode, ca_cn, ca_cert, ca_key, crt_file, key_file,
                   key_mode, now, next_key, held, pre, made, origin>>

\* while no process runs, the deployment is given another CA common name:
\* the next PKIService(ca_dir, ca_cn=...) is constructed with it
reconfigure ==
    /\ pc = "down"
    /\ ca_cn' \in Names \ {ca_cn}
    /\ op' = [NoOp EXCEPT !.kind = "reconfigure"]
    /\ UNCHANGED <<other, peer, th, pc, mode, ca_cert, ca_key, crt_file, key_file,
                   key_mode, now, next_key, held, pre, made, origin>>

\* the clock advances
tick ==
    /\ pc = "ready"
    /\ now < MaxTime
    /\ now' = now + 1
    /\ op' = [NoOp EXCEPT !.kind = "tick"]
    /\ UNCHANGED <<other, peer, th, pc, mode, ca_cn, ca_cert, ca_key, crt_file, key_file,
                   key_mode, next_key, held, pre, made, origin>>

\* the process ends (exit, kill, power loss) at whatever statement it is at:
\* the memory is gone, the files stay as they are
stop ==
    /\ pc # "down"
    /\ pc' = "down"
    /\ mode' = "none"
    /\ ca_cert' = NoCert
    /\ ca_key' = NoKey
    /\ op' = [NoOp EXCEPT !.kind = "stop"]
    /\ origin' = "none"
    /\ UNCHANGED <<other, peer, th, ca_cn, crt_file, key_file, key_mode, now, next_key, held,
                   pre, made>>

\* while no process runs, a file of the directory is lost or damaged
damage ==
    /\ pc = "down"
    /\ \/ crt_file' \in {Absent, Garbage} /\ UNCHANGED <<key_file, key_mode>>
       \/ key_file' = Absent /\ key_mode' = "absent" /\ UNCHANGED crt_file
       \/ exists(key_file) /\ key_file' = Garbage /\ UNCHANGED <<crt_file, key_mode>>
    /\ made' = [made EXCEPT !.intact = FALSE]
    /\ op' = [NoOp EXCEPT !.kind = "damage"]
    /\ UNCHANGED <<other, peer, th, pc, mode, ca_cn, ca_cert, ca_key, now, next_key, held,
                   pre, origin>>

----------------------------------------------------------------------------

(* A second process (another worker) that constructs its own PKIService on
   the same directory: it runs the same __init__, on its own memory and on
   the files the two processes share. *)

\* what the first process holds in its memory, and what is recorded of it
own ==
    <<pc, mode, ca_cn, ca_cert, ca_key, now, held, op, pre, made, origin, th>>

\* PKIService(ca_dir, ...) in the second process
peer_construct ==
    /\ peer.pc = "down"
    /\ peer' = [NoPeer EXCEPT !.pc = "load_or_create",
                              !.pre = [crt |-> crt_file, key |-> key_file]]
    /\ UNCHANGED <<other, own, crt_file, key_file, key_mode, next_key>>

\* if os.path.exists(ca_cert_path) and os.path.exists(ca_key_path)
peer_load_or_create_ca ==
    /\ peer.pc = "load_or_create"
    /\ peer' = [peer EXCEPT !.pc = IF exists(crt_file) /\ exists(key_file)
                                   THEN "load_crt" ELSE "gen_key"]
    /\ UNCHANGED <<other, own, crt_file, key_file, key_mode, next_key>>

\* _load_ca, first with block
peer_load_ca_cert ==
    /\ peer.pc = "load_crt"
    /\ LET r == load_pem_x509_certificate(crt_file)
       IN  peer' = IF r.ok
                   THEN [peer EXCEPT !.ca_cert = r.val, !.pc = "load_key"]
                   ELSE [peer EXCEPT !.pc = "load_except"]
    /\ UNCHANGED <<other, own, crt_file, key_file, key_mode, next_key>>

\* _load_ca, second with block, after which __init__ is done
peer_load_ca_key ==
    /\ peer.pc = "load_key"
    /\ LET r == load_pem_private_key(key_file)
       IN  peer' = IF r.ok
                   THEN [peer EXCEPT !.ca_key = r.val, !.pc = "ready"]
                   ELSE [peer EXCEPT !.pc = "load_except"]
    /\ UNCHANGED <<other, own, crt_file, key_file, key_mode, next_key>>

\* except Exception: pass, and on to self._create_ca()
peer_load_except ==
    /\ peer.pc = "load_except"
    /\ peer' = [peer EXCEPT !.pc = "gen_key"]
    /\ UNCHANGED <<other, own, crt_file, key_file, key_mode, next_key>>

\* self._ca_key = rsa.generate_private_key(65537, 4096)
peer_create_ca_key ==
    /\ peer.pc = "gen_key"
    /\ next_key < MaxKeys
    /\ peer' = [peer EXCEPT !.ca_key = next_key + 1, !.pc = "build_cert"]
    /\ next_key' = next_key + 1
    /\ UNCHANGED <<other, own, crt_file, key_file, key_mode>>

\* self._ca_cert = CertificateBuilder()...sign(self._ca_key, SHA256); the
\* two processes are configured alike
peer_create_ca_cert ==
    /\ peer.pc = "build_cert"
    /\ peer' = [peer EXCEPT !.ca_cert = CaCertificate(ca_cn, peer.ca_key, now, now),
                            !.pc = "open_crt"]
    /\ UNCHANGED <<other, own, crt_file, key_file, key_mode, next_key>>

\* _save_ca: open(self.ca_cert_path, "wb")
peer_save_ca_open_crt ==
    /\ peer.pc = "open_crt"
    /\ crt_file' = Empty
    /\ made' = [made EXCEPT !.intact = FALSE]
    /\ peer' = [peer EXCEPT !.pc = "write_crt"]
    /\ UNCHANGED <<other, pc, mode, ca_cn, ca_cert, ca_key, now, held, op, pre,
                   origin, th, key_file, key_mode, next_key>>

\* _save_ca: f.write(self._ca_cert.public_bytes(PEM)) and the file is closed
peer_save_ca_write_crt ==
    /\ peer.pc = "write_crt"
    /\ crt_file' = CertPem(peer.ca_cert)
    /\ peer' = [peer EXCEPT !.pc = "open_key"]
    /\ UNCHANGED <<other, own, key_file, key_mode, next_key>>

\* _save_ca: open(self.ca_key_path, "wb")
peer_save_ca_open_key ==
    /\ peer.pc = "open_key"
    /\ key_file' = Empty
    /\ key_mode' = IF exists(key_file) THEN key_mode ELSE "umask"
    /\ peer' = [peer EXCEPT !.pc = "write_key"]
    /\ UNCHANGED <<other, own, crt_file, next_key>>

\* _save_ca: f.write(self._ca_key.private_bytes(...)) and the file is closed
peer_save_ca_write_key ==
    /\ peer.pc = "write_key"
    /\ key_file' = KeyPem(peer.ca_key)
    /\ peer' = [peer EXCEPT !.pc = "chmod"]
    /\ UNCHANGED <<other, own, crt_file, key_mode, next_key>>

\* _save_ca: os.chmod(self.ca_key_path, 0o600), and __init__ is done
peer_save_ca_done ==
    /\ peer.pc = "chmod"
    /\ key_mode' = save_ca_chmod(key_mode)
    /\ peer' = [peer EXCEPT !.pc = "ready"]
    /\ UNCHANGED <<other, own, crt_file, key_file, next_key>>

(* EVEIngestionService (eve_ingestion.py): start(), stop(), the tail thread
   running _tail_file, _process_line and _flush_buffer, statement by
   statement.  No alert callback is set, the log file exists and is not
   rotated. *)

\* what belongs to the PKI service and its processes
pki ==
    <<pc, mode, ca_cn, ca_cert, ca_key, crt_file, key_file, key_mode, now,
      next_key, held, op, pre, made, origin, th, peer>>

\* the Thread objects start() can create
Tails == 1..MaxTails

\* the lines of eve.json: every second one is no JSON
eve_line(n) == IF n % 2 = 0 THEN "junk" ELSE "event"

\* parse_eve_event(line): None for what is no JSON, else a new EVEAlert
\* object, here numbered `k`, of line `n`
parse_eve_event(n, k) ==
    IF eve_line(n) = "junk" THEN None
    ELSE [t |-> "EVEAlert", id |-> k, line |-> n]

\* the EVEAlert objects of a bulk body
Events(body) == {body[i].id : i \in 1..Len(body)}

\* self.client.bulk(body=bulk_body) called by thread `by` (0: the thread
\* that calls stop()): the request is made, and it is answered or it raises;
\* kept are the events each thread has sent, those a thread has sent in two
\* requests, and those whose request failed
client_bulk(by, body, ok) ==
    [bulk EXCEPT !.sent[by] = @ \cup Events(body),
                 !.twice = @ \cup (bulk.sent[by] \cap Events(body)),
                 !.failed = IF ok THEN @ ELSE @ \cup Events(body)]

\* start() finding self._running set: it returns at once
start_returns == caller' = [caller EXCEPT !.did = "start, running"]

\* start(): if self._running: return; else self._running = True and a new
\* daemon thread is created on _tail_file and started
eve_start ==
    /\ caller.at = "idle"
    /\ IF eve.running
       THEN /\ start_returns
            /\ UNCHANGED <<eve, tails>>
       ELSE /\ Cardinality({t \in Tails : tails[t].at # "unborn"}) < MaxTails
            /\ LET new == 1 + Cardinality({t \in Tails : tails[t].at # "unborn"})
               IN  /\ eve' = [eve EXCEPT !.running = TRUE, !.thread = new]
                   /\ tails' = [tails EXCEPT ![new].at = "while"]
            /\ caller' = [caller EXCEPT !.did = "start"]
    /\ UNCHANGED <<pki, bulk>>

\* stop(): self._running = False, then join the thread if there is one
eve_stop ==
    /\ caller.at = "idle"
    /\ eve' = [eve EXCEPT !.running = FALSE]
    /\ caller' = [caller EXCEPT !.at = IF eve.thread # 0 THEN "join" ELSE "flush"]
    /\ UNCHANGED <<pki, tails, bulk>>

\* stop(): self._thread.join(timeout=5) returns because the thread has ended;
\* self._thread = None
eve_stop_join ==
    /\ caller.at = "join"
    /\ tails[eve.thread].at = "done"
    /\ eve' = [eve EXCEPT !.thread = 0]
    /\ caller' = [caller EXCEPT !.at = "flush"]
    /\ UNCHANGED <<pki, tails, bulk>>

\* stop(): self._thread.join(timeout=5) returns after five seconds while the
\* thread is still waiting for the answer to a bulk request;
\* self._thread = None all the same
eve_stop_join_timeout ==
    /\ caller.at = "join"
    /\ tails[eve.thread].at = "bulk"
    /\ eve' = [eve EXCEPT !.thread = 0]
    /\ caller' = [caller EXCEPT !.at = "flush"]
    /\ UNCHANGED <<pki, tails, bulk>>

\* stop(): self._flush_buffer() on the calling thread, up to client.bulk
eve_stop_flush ==
    /\ caller.at = "flush"
    /\ IF eve.event_buffer = <<>>
       THEN caller' = [caller EXCEPT !.at = "idle", !.did = "stop"]
       ELSE caller' = [caller EXCEPT !.at = "bulk", !.body = eve.event_buffer]
    /\ UNCHANGED <<pki, eve, tails, bulk>>

\* stop(): client.bulk returns or raises (caught), self._event_buffer = [],
\* and stop() returns
eve_stop_bulk ==
    /\ caller.at = "bulk"
    /\ \E ok \in BOOLEAN : bulk' = client_bulk(0, caller.body, ok)
    /\ eve' = [eve EXCEPT !.event_buffer = <<>>]
    /\ caller' = [caller EXCEPT !.at = "idle", !.body = <<>>, !.did = "stop"]
    /\ UNCHANGED <<pki, tails>>

\* _tail_file: while self._running (outer loop); the file is opened and
\* f.seek(self._file_position), or the thread ends
tail_file_while ==
    \E t \in Tails :
        /\ tails[t].at = "while"
        /\ tails' = IF eve.running
                    THEN [tails EXCEPT ![t].at = "inner", ![t].pos = eve.file_position]
                    ELSE [tails EXCEPT ![t].at = "done"]
        /\ UNCHANGED <<pki, eve, caller, bulk>>

\* _tail_file: while self._running (inner loop)
tail_file_inner ==
    \E t \in Tails :
        /\ tails[t].at = "inner"
        /\ tails' = [tails EXCEPT ![t].at = IF eve.running THEN "readline" ELSE "while"]
        /\ UNCHANGED <<pki, eve, caller, bulk>>

\* _tail_file: line = f.readline(); with a line, _process_line(line) begins
\* with parse_eve_event and returns at once on None; without one, the buffer
\* is flushed when flush_interval has passed, and the thread sleeps
tail_file_readline ==
    \E t \in Tails :
        /\ tails[t].at = "readline"
        /\ IF tails[t].pos < MaxLines
           THEN /\ eve_line(tails[t].pos + 1) = "junk" \/ bulk.alerts < MaxAlerts
                /\ LET alert == parse_eve_event(tails[t].pos + 1, bulk.alerts + 1)
                   IN  /\ tails' = [tails EXCEPT
                                ![t].pos = @ + 1,
                                ![t].alert = alert,
                                ![t].at = IF alert = None THEN "ret" ELSE "append"]
                       /\ bulk' = [bulk EXCEPT
                                !.alerts = IF alert = None THEN @ ELSE @ + 1]
           ELSE /\ \E interval_passed \in BOOLEAN :
                    tails' = [tails EXCEPT
                                ![t].at = IF interval_passed THEN "flush" ELSE "sleep",
                                ![t].back = "sleep"]
                /\ UNCHANGED bulk
        /\ UNCHANGED <<pki, eve, caller>>

\* _tail_file: time.sleep(0.1), the size of the file is not below the
\* position, and the inner loop goes round
tail_file_sleep ==
    \E t \in Tails :
        /\ tails[t].at = "sleep"
        /\ tails' = [tails EXCEPT ![t].at = "inner", ![t].back = "none"]
        /\ UNCHANGED <<pki, eve, caller, bulk>>

\* _process_line: self._event_buffer.append(alert)
process_line_append ==
    \E t \in Tails :
        /\ tails[t].at = "append"
        /\ eve' = [eve EXCEPT !.event_buffer = Append(@, tails[t].alert)]
        /\ tails' = [tails EXCEPT ![t].at = "check"]
        /\ UNCHANGED <<pki, caller, bulk>>

\* _process_line: len(self._event_buffer) >= self.batch_size
process_line_full(buffer) == Len(buffer) >= BatchSize

\* _process_line: flush if the buffer is full, or else if flush_interval has
\* passed since the last flush, or else return
process_line_check ==
    \E t \in Tails :
        /\ tails[t].at = "check"
        /\ \E interval_passed \in BOOLEAN :
            tails' = IF process_line_full(eve.event_buffer) \/ interval_passed
                     THEN [tails EXCEPT ![t].at = "flush", ![t].back = "ret"]
                     ELSE [tails EXCEPT ![t].at = "ret"]
        /\ UNCHANGED <<pki, eve, caller, bulk>>

\* _tail_file: _process_line has returned; self._file_position = f.tell()
tail_file_tell ==
    \E t \in Tails :
        /\ tails[t].at = "ret"
        /\ eve' = [eve EXCEPT !.file_position = tails[t].pos]
        /\ tails' = [tails EXCEPT ![t].at = "inner", ![t].alert = None,
                                  ![t].back = "none"]
        /\ UNCHANGED <<pki, caller, bulk>>

\* _flush_buffer: return on an empty buffer, else build bulk_body from the
\* buffer and call self.client.bulk
flush_buffer_begin ==
    \E t \in Tails :
        /\ tails[t].at = "flush"
        /\ tails' = IF eve.event_buffer = <<>>
                    THEN [tails EXCEPT ![t].at = tails[t].back]
                    ELSE [tails EXCEPT ![t].at = "bulk", ![t].body = eve.event_buffer]
        /\ UNCHANGED <<pki, eve, caller, bulk>>

\* _flush_buffer: client.bulk returns, or raises and the exception is
\* printed; self._event_buffer = [] and _flush_buffer returns
flush_buffer_bulk ==
    \E t \in Tails :
        /\ tails[t].at = "bulk"
        /\ \E ok \in BOOLEAN : bulk' = client_bulk(t, tails[t].body, ok)
        /\ eve' = [eve EXCEPT !.event_buffer = <<>>]
        /\ tails' = [tails EXCEPT ![t].at = tails[t].back, ![t].body = <<>>]
        /\ UNCHANGED <<pki, caller>>

----------------------------------------------------------------------------


Next ==
    \/ construct
    \/ load_or_create_ca
    \/ load_ca_cert
    \/ load_ca_key
    \/ load_except
    \/ create_ca_key
    \/ create_ca_cert
    \/ save_ca_open_crt
    \/ save_ca_write_crt
    \/ save_ca_open_key
    \/ save_ca_write_key
    \/ save_ca_done
    \/ create_ca_raises
    \/ regenerate_ca
    \/ generate_server_cert
    \/ verify
    \/ tick
    \/ stop
    \/ damage

Spec == Init /\ [][Next]_vars

\* the CA life cycle alone: the service is started, stopped and regenerated,
\* and nobody asks it for certificates
NextCA ==
    \/ construct
    \/ load_or_create_ca
    \/ load_ca_cert
    \/ load_ca_key
    \/ load_except
    \/ create_ca_key
    \/ create_ca_cert
    \/ save_ca_open_crt
    \/ save_ca_write_crt
    \/ save_ca_open_key
    \/ save_ca_write_key
    \/ save_ca_done
    \/ create_ca_raises
    \/ regenerate_ca
    \/ stop
    \/ damage

SpecCA == Init /\ [][NextCA]_vars

\* the whole interface of one service on a steady clock: the life cycle,
\* both kinds of leaf, get_cert_info and the accessors
NextUse ==
    \/ construct
    \/ construct_raises
    \/ load_or_create_ca
    \/ load_ca_cert
    \/ load_ca_key
    \/ load_except
    \/ create_ca_key
    \/ create_ca_cert
    \/ save_ca_open_crt
    \/ save_ca_write_crt
    \/ save_ca_open_key
    \/ save_ca_write_key
    \/ save_ca_done
    \/ create_ca_raises
    \/ regenerate_ca
    \/ generate_server_cert
    \/ generate_client_cert
    \/ generate_cert_raises
    \/ verify
    \/ get_cert_info
    \/ get_ca_info
    \/ get_ca_cert_pem
    \/ get_ca_fingerprint
    \/ stop

SpecUse == Init /\ [][NextUse]_vars

\* one service from its construction on an empty directory to its end, with
\* every call a caller can make on it
NextCalls ==
    \/ construct
    \/ load_or_create_ca
    \/ create_ca_key
    \/ create_ca_cert
    \/ save_ca_open_crt
    \/ save_ca_write_crt
    \/ save_ca_open_key
    \/ save_ca_write_key
    \/ save_ca_done
    \/ regenerate_ca
    \/ generate_server_cert
    \/ generate_client_cert
    \/ generate_cert_raises
    \/ verify
    \/ get_cert_info
    \/ get_ca_info
    \/ get_ca_cert_pem
    \/ get_ca_fingerprint

SpecCalls == Init /\ [][NextCalls]_vars

\* a deployment whose configured CA name may change between two starts, and
\* what its callers read from the certificates
NextName ==
    \/ construct
    \/ reconfigure
    \/ load_or_create_ca
    \/ load_ca_cert
    \/ load_ca_key
    \/ load_except
    \/ create_ca_key
    \/ create_ca_cert
    \/ save_ca_open_crt
    \/ save_ca_write_crt
    \/ save_ca_open_key
    \/ save_ca_write_key
    \/ save_ca_done
    \/ generate_server_cert
    \/ generate_client_cert
    \/ get_cert_info
    \/ get_ca_info
    \/ stop

SpecName == Init /\ [][NextName]_vars

\* starting the service, over and over, on whatever an earlier start left
NextInit ==
    \/ construct
    \/ construct_raises
    \/ load_or_create_ca
    \/ load_ca_cert
    \/ load_ca_key
    \/ load_except
    \/ create_ca_key
    \/ create_ca_cert
    \/ save_ca_open_crt
    \/ save_ca_write_crt
    \/ save_ca_open_key
    \/ save_ca_write_key
    \/ save_ca_done
    \/ create_ca_raises
    \/ stop
    \/ damage

SpecInit == Init /\ [][NextInit]_vars

\* a service created on an empty directory that issues while the clock runs,
\* also between the two clock reads of a builder
NextClock ==
    \/ construct
    \/ load_or_create_ca
    \/ create_ca_key
    \/ create_ca_cert
    \/ create_ca_cert_late
    \/ save_ca_open_crt
    \/ save_ca_write_crt
    \/ save_ca_open_key
    \/ save_ca_write_key
    \/ save_ca_done
    \/ generate_server_cert
    \/ generate_server_cert_late
    \/ generate_client_cert
    \/ generate_client_cert_late
    \/ tick

SpecClock == Init /\ [][NextClock]_vars

\* a service created on an empty directory and then called from several
\* threads, with nobody calling regenerate_ca
NextConc ==
    \/ construct
    \/ load_or_create_ca
    \/ create_ca_key
    \/ create_ca_cert
    \/ save_ca_open_crt
    \/ save_ca_write_crt
    \/ save_ca_open_key
    \/ save_ca_write_key
    \/ save_ca_done
    \/ t_issue_begin
    \/ t_issue_sign
    \/ t_verify_begin
    \/ t_verify_check
    \/ t_get_cert_info
    \/ t_accessor
    \/ t_return

SpecConc == Init /\ [][NextConc]_vars

\* the same threads, and a regenerate_ca running beside them
NextRace ==
    \/ construct
    \/ load_or_create_ca
    \/ create_ca_key
    \/ create_ca_cert
    \/ save_ca_open_crt
    \/ save_ca_write_crt
    \/ save_ca_open_key
    \/ save_ca_write_key
    \/ save_ca_done
    \/ regenerate_ca
    \/ t_issue_begin
    \/ t_issue_sign
    \/ t_verify_begin
    \/ t_verify_check
    \/ t_get_cert_info
    \/ t_accessor
    \/ t_return

SpecRace == Init /\ [][NextRace]_vars

\* a service that is started, regenerated and ended at any statement, on a
\* directory nothing else touches and with no statement failing
NextCrash ==
    \/ construct
    \/ load_or_create_ca
    \/ load_ca_cert
    \/ load_ca_key
    \/ load_except
    \/ create_ca_key
    \/ create_ca_cert
    \/ save_ca_open_crt
    \/ save_ca_write_crt
    \/ save_ca_open_key
    \/ save_ca_write_key
    \/ save_ca_done
    \/ regenerate_ca
    \/ stop

SpecCrash == Init /\ [][NextCrash]_vars

\* a service created on an empty directory whose regenerate_ca may fail at
\* any statement, and the calls that use the CA it is left with
NextFail ==
    \/ construct
    \/ load_or_create_ca
    \/ create_ca_key
    \/ create_ca_cert
    \/ save_ca_open_crt
    \/ save_ca_write_crt
    \/ save_ca_open_key
    \/ save_ca_write_key
    \/ save_ca_done
    \/ regenerate_ca
    \/ regenerate_ca_raises
    \/ generate_server_cert
    \/ verify

SpecFail == Init /\ [][NextFail]_vars

\* two worker processes that each construct a PKIService on one directory
NextTwo ==
    \/ construct
    \/ load_or_create_ca
    \/ load_ca_cert
    \/ load_ca_key
    \/ load_except
    \/ create_ca_key
    \/ create_ca_cert
    \/ save_ca_open_crt
    \/ save_ca_write_crt
    \/ save_ca_open_key
    \/ save_ca_write_key
    \/ save_ca_done
    \/ peer_construct
    \/ peer_load_or_create_ca
    \/ peer_load_ca_cert
    \/ peer_load_ca_key
    \/ peer_load_except
    \/ peer_create_ca_key
    \/ peer_create_ca_cert
    \/ peer_save_ca_open_crt
    \/ peer_save_ca_write_crt
    \/ peer_save_ca_open_key
    \/ peer_save_ca_write_key
    \/ peer_save_ca_done

SpecTwo == Init /\ [][NextTwo]_vars

\* a deployment whose configured CA name may change between two starts and
\* whose CA is regenerated while leaves of the earlier CA are in use
NextRegen ==
    \/ construct
    \/ reconfigure
    \/ load_or_create_ca
    \/ load_ca_cert
    \/ load_ca_key
    \/ load_except
    \/ create_ca_key
    \/ create_ca_cert
    \/ save_ca_open_crt
    \/ save_ca_write_crt
    \/ save_ca_open_key
    \/ save_ca_write_key
    \/ save_ca_done
    \/ regenerate_ca
    \/ generate_server_cert
    \/ stop

SpecRegen == Init /\ [][NextRegen]_vars

\* the ingestion service: its caller starts and stops it, its tail threads
\* read, buffer and flush
NextEve ==
    \/ eve_start
    \/ eve_stop
    \/ eve_stop_join
    \/ eve_stop_join_timeout
    \/ eve_stop_flush
    \/ eve_stop_bulk
    \/ tail_file_while
    \/ tail_file_inner
    \/ tail_file_readline
    \/ tail_file_sleep
    \/ process_line_append
    \/ process_line_check
    \/ tail_file_tell
    \/ flush_buffer_begin
    \/ flush_buffer_bulk

SpecEve == Init /\ [][NextEve]_vars

\* the ingestion service when every join of stop() waits for the thread to end
NextOneTail ==
    \/ eve_start
    \/ eve_stop
    \/ eve_stop_join
    \/ eve_stop_flush
    \/ eve_stop_bulk
    \/ tail_file_while
    \/ tail_file_inner
    \/ tail_file_readline
    \/ tail_file_sleep
    \/ process_line_append
    \/ process_line_check
    \/ tail_file_tell
    \/ flush_buffer_begin
    \/ flush_buffer_bulk

SpecOneTail == Init /\ [][NextOneTail]_vars

----------------------------------------------------------------------------
(* What the claims speak of. *)

\* the certificate inside a PEM block handed to verify_certificate
CertOf(cert_pem) == load_pem_x509_certificate(cert_pem).val

\* (a) issuer name equals the subject name of the current CA certificate
IssuerMatches(cert) == cert.issuer = ca_cert.subject
\* (b) the signature validates under the public key of the current CA certificate
SignatureValid(cert) == cert.signer = ca_cert.pub
\* (c) not_before <= now <= not_after
InWindow(cert) == cert.nb <= now /\ now <= cert.na

\* a file that is missing or is not the PEM block it should hold
CrtUnusable(file) == file.t # "CERTIFICATE"
KeyUnusable(file) == file.t # "RSA PRIVATE KEY"

\* the states of the life cycle
Phase ==
    IF pc = "down" THEN "NO SERVICE"
    ELSE IF pc \in {"load_or_create", "load_crt", "load_key", "load_except"}
        THEN "UNINITIALIZED"
    ELSE IF pc \in CreateSteps /\ mode = "init" THEN "CREATE"
    ELSE IF pc \in CreateSteps /\ mode = "regen" THEN "REGENERATE"
    ELSE "READY"

HoldsCa == ca_cert # NoCert /\ ca_key # NoKey

----------------------------------------------------------------------------
(* C1: with a READY CA, the certificate generate_server_cert returns names
   the CA subject as its issuer, and verify_certificate called on it right
   away returns true. *)
C1_IssuedServerCertVerifies ==
    (pc = "ready" /\ op.kind = "generate_server_cert")
        => /\ IssuerMatches(CertOf(op.arg))
           /\ verify_certificate(op.arg, ca_cert, now) = "true"

(* C2: once regenerate_ca has completed, verify_certificate returns false for
   every certificate issued under an earlier CA and true for a certificate,
   within its validity window, issued by the new CA. *)
C2_OnlyCurrentCaTrusted ==
    (pc = "ready" /\ origin = "regenerate")
        => \A h \in held :
            /\ h.by # ca_cert
                => verify_certificate(CertPem(h.cert), ca_cert, now) = "false"
            /\ (h.by = ca_cert /\ InWindow(h.cert))
                => verify_certificate(CertPem(h.cert), ca_cert, now) = "true"

(* C3: verify_certificate returns true exactly when the input is a
   certificate whose issuer is the CA subject, whose signature validates
   under the CA public key, and whose validity window holds the current
   time, both ends included. *)
C3_VerifyIffIssuerSignatureWindow ==
    op.kind = "verify_certificate"
        => ((op.res = "true")
              <=> /\ load_pem_x509_certificate(op.arg).ok
                  /\ IssuerMatches(CertOf(op.arg))
                  /\ SignatureValid(CertOf(op.arg))
                  /\ InWindow(CertOf(op.arg)))

(* C4: verify_certificate never raises: it returns a boolean, the boolean
   is false when the input does not parse, names another issuer, carries a
   signature of another key, is outside its validity window or makes the
   check itself fail, and the CA in memory and on disk is left as it was. *)
C4_VerifyNeverRaises ==
    [][op'.kind = "verify_certificate"
        => /\ op'.res \in {"true", "false"}
           /\ (\/ ~load_pem_x509_certificate(op'.arg).ok
               \/ ~IssuerMatches(CertOf(op'.arg))
               \/ ~SignatureValid(CertOf(op'.arg))
               \/ ~InWindow(CertOf(op'.arg))
               \/ verify_try(op'.arg, ca_cert, now) = "raise")
                  => op'.res = "false"
           /\ UNCHANGED <<ca_cert, ca_key, crt_file, key_file, key_mode>>]_vars

\* verify_certificate was called on an expired certificate the CA had issued
\* and returned false
C4_Witness ==
    /\ op.kind = "verify_certificate"
    /\ op.res = "false"
    /\ \E h \in held : op.arg = CertPem(h.cert) /\ now > h.cert.na

(* C5: whenever an initialization or a regenerate_ca has returned, or a
   load has just failed, the CA certificate and the CA key in memory are
   both absent, or both present with the key being the one the certificate
   certifies. *)
C5_CertAndKeyTogether ==
    (pc = "load_except" \/ (pc = "ready" /\ origin # "failed regenerate"))
        => \/ ca_cert = NoCert /\ ca_key = NoKey
           \/ HoldsCa /\ ca_cert.pub = ca_key

(* C6: the life cycle moves only from UNINITIALIZED to READY by a load that
   succeeded, from UNINITIALIZED over CREATE to READY, and from READY over
   regenerate back to READY; an initialization that returns leaves a service
   that holds a CA certificate and a CA key, and so does every state of a
   constructed service. *)
C6_Lifecycle ==
    [][/\ (Phase = "NO SERVICE" /\ Phase' # Phase) => Phase' = "UNINITIALIZED"
       /\ (Phase = "UNINITIALIZED" /\ Phase' # Phase)
            => \/ Phase' = "READY" /\ op'.via = "load" /\ HoldsCa'
               \/ Phase' = "CREATE"
               \/ Phase' = "NO SERVICE" /\ op'.kind = "stop"
       /\ (Phase = "CREATE" /\ Phase' # Phase)
            => \/ Phase' = "READY" /\ op'.via = "create" /\ HoldsCa'
               \/ Phase' = "NO SERVICE" /\ op'.kind = "stop"
               \/ Phase' = "NO SERVICE" /\ op'.res = "raise"
       /\ (Phase = "READY" /\ Phase' # Phase)
            => Phase' \in {"REGENERATE", "NO SERVICE"}
       /\ (Phase = "REGENERATE" /\ Phase' # Phase)
            => \/ Phase' = "READY" /\ op'.kind = "regenerate_ca"
               \/ Phase' = "NO SERVICE" /\ op'.kind = "stop"
       /\ (op'.kind = "init" /\ op'.res # "raise")
            => Phase' = "READY" /\ HoldsCa'
       /\ Phase' \in {"READY", "REGENERATE"} => HoldsCa']_vars

\* an initialization whose load failed has created a CA and returned, and the
\* service has been regenerated since
C6_Witness ==
    /\ Phase = "READY"
    /\ op.kind = "regenerate_ca" /\ op.via = "create"
    /\ pre.crt # Absent /\ KeyUnusable(pre.key)
    /\ HoldsCa

(* C7: an initialization that found ca.crt or ca.key missing or unparsable,
   whatever the other file held, has gone through create: the CA in memory
   is a new matching pair, ca.crt and ca.key hold that pair, and neither
   file is what it was before. *)
C7_FallbackToCreate ==
    (/\ op.kind = "init" /\ op.res # "raise"
     /\ CrtUnusable(pre.crt) \/ KeyUnusable(pre.key))
        => /\ op.via = "create"
           /\ HoldsCa /\ ca_cert.pub = ca_key /\ ca_cert.signer = ca_key
           /\ crt_file = CertPem(ca_cert) /\ key_file = KeyPem(ca_key)
           /\ crt_file # pre.crt /\ key_file # pre.key
           /\ KeyPem(ca_cert.pub) # pre.key
           /\ ~CrtUnusable(pre.crt) => pre.crt.der.pub # ca_key

\* the service started on a good ca.crt beside a corrupt ca.key and has
\* replaced both
C7_Witness ==
    /\ op.kind = "init" /\ op.via = "create"
    /\ ~CrtUnusable(pre.crt)
    /\ pre.key # Absent /\ KeyUnusable(pre.key)
    /\ crt_file = CertPem(ca_cert) /\ key_file = KeyPem(ca_key)

(* C8: _load_ca never changes the two files, and a load that failed leaves
   self._ca_cert and self._ca_key as they were when it was called (None,
   as __init__ set them). *)
C8_LoadHasNoSideEffect ==
    /\ pc \in {"load_crt", "load_key", "load_except"}
        => crt_file = pre.crt /\ key_file = pre.key
    /\ pc = "load_except" => ca_cert = NoCert /\ ca_key = NoKey

(* C9: right after a create that succeeded, in __init__ or in regenerate_ca,
   ca.key has mode 0600. *)
C9_KeyFileOwnerOnly ==
    (op.kind \in {"init", "regenerate_ca"} /\ op.via = "create")
        => key_mode = "0600"

\* a create that had to make ca.key anew has completed
C9_Witness ==
    /\ op.kind = "init" /\ op.via = "create"
    /\ ~exists(pre.key)
    /\ key_file = KeyPem(ca_key)
    /\ key_mode = "0600"

(* C10: a service initialized on the files a completed create wrote loads
   that CA and creates none: its fingerprint is the one captured right after
   the create, and the two files are as they were. *)
C10_RestartLoadsCreatedCa ==
    /\ (Phase = "CREATE") => ~pre.intact
    /\ (op.kind = "init" /\ pre.intact)
        => /\ op.res # "raise" /\ op.via = "load"
           /\ get_ca_fingerprint_of(ca_cert) = made.fp
           /\ crt_file = pre.crt /\ key_file = pre.key

\* a restart after a completed create has loaded the CA
C10_Witness ==
    /\ op.kind = "init" /\ op.via = "load"
    /\ pre.intact
    /\ get_ca_fingerprint_of(ca_cert) = made.fp

----------------------------------------------------------------------------
(* C11: get_ca_fingerprint returns the digest of the CA certificate the
   service holds; no call other than regenerate_ca (issuing, verifying,
   parsing, the accessors) changes that digest; and when a regenerate_ca
   returns, the digest differs from the one the CA had when regenerate_ca was
   called. *)
C11_FingerprintStable ==
    [][ /\ (pc = "ready" /\ pc' = "ready")
            => get_ca_fingerprint_of(ca_cert') = get_ca_fingerprint_of(ca_cert)
        /\ op'.kind = "get_ca_fingerprint"
            => op'.out = get_ca_fingerprint_of(ca_cert)
        /\ (op.kind = "regenerate_ca" /\ op.res = "called"
                /\ op'.kind = "regenerate_ca" /\ op'.via = "create")
            => get_ca_fingerprint_of(ca_cert') # op.out ]_vars

\* the fingerprint is read after a regenerate_ca and after leaves were issued
C11_Witness ==
    op.kind = "get_ca_fingerprint" /\ origin = "regenerate" /\ held # {}

----------------------------------------------------------------------------
(* C12: two certificates issued on the same arguments under the same CA
   certificate have different serial numbers and different private keys, and
   each is valid under that CA: it names the CA subject as its issuer and its
   signature validates under the public key of the CA certificate. *)
ValidUnder(cert, cacert) ==
    cert.issuer = cacert.subject /\ cert.signer = cacert.pub

C12_IssuanceNotIdempotent ==
    \A a \in held, b \in held :
        (a # b /\ a.req = b.req /\ a.by = b.by)
            => /\ a.cert.serial # b.cert.serial
               /\ a.key # b.key
               /\ ValidUnder(a.cert, a.by)
               /\ ValidUnder(b.cert, b.by)

----------------------------------------------------------------------------
(* C13: a generate_server_cert, generate_client_cert or get_cert_info call,
   returning or raising, leaves self._ca_cert, self._ca_key, ca.crt, ca.key
   and the mode of ca.key as they were; and at no time does ca.crt hold a
   leaf certificate or ca.key a leaf key. *)
IsLeafCall(kind) ==
    kind \in {"generate_server_cert", "generate_client_cert", "get_cert_info"}

C13_LeafCallsKeepCa ==
    [][ /\ (pc = "ready" /\ pc' = "ready" /\ IsLeafCall(op'.kind))
            => UNCHANGED <<ca_cert, ca_key, crt_file, key_file, key_mode>>
        /\ crt_file'.t = "CERTIFICATE" => crt_file'.der.eku = ""
        /\ key_file'.t = "RSA PRIVATE KEY" => key_file'.der < LeafKey(0) ]_vars

\* an issuing call has raised after a certificate was handed out
C13_Witness ==
    /\ op.kind = "generate_client_cert" /\ op.res = "raise"
    /\ \E h \in held : h.req.kind = "server"
    /\ HoldsCa

----------------------------------------------------------------------------
(* C14: get_cert_info on what is no PEM X.509 certificate (the empty string,
   bytes that are no PEM, a truncated PEM block, a key file) or on a
   certificate whose subject has no Common Name raises
   CertificateParseError, and nothing else. *)
NotACertificate(cert_pem) == cert_pem.t # "CERTIFICATE"

NoSubjectCn(cert_pem) ==
    cert_pem.t = "CERTIFICATE" /\ cert_pem.der.subject.cn = ""

C14_ParseErrorOnly ==
    (op.kind = "get_cert_info" /\ (NotACertificate(op.arg) \/ NoSubjectCn(op.arg)))
        => (op.res = "raise" /\ op.via = "CertificateParseError")

----------------------------------------------------------------------------
(* C15: while nobody calls regenerate_ca, the steps of the threads' issue,
   verify, parse and accessor calls leave self._ca_cert, self._ca_key and the
   two files as they were, and every call that has returned holds the result
   the same call returns when it runs alone against that CA. *)
Alone(t) ==
    LET c == th[t]
    IN  IF c.call \in {"generate_server_cert", "generate_client_cert"}
        THEN CertPem(Issued(c.arg, ThreadKey(t), ca_cert, ca_key, now, now))
        ELSE IF c.call = "verify_certificate"
        THEN Returned(verify_certificate(c.arg, ca_cert, now))
        ELSE IF c.call = "get_cert_info"
        THEN [t |-> "info", r |-> get_cert_info_of(c.arg)]
        ELSE AccessorResult(c.call, ca_cert)

C15_ReadersDoNotInterfere ==
    [][ /\ th' # th
            => UNCHANGED <<ca_cert, ca_key, crt_file, key_file, key_mode>>
        /\ \A t \in Threads : th'[t].at = "done" => th'[t].res = Alone(t)' ]_vars

\* one thread has been handed a server certificate while another is inside
\* verify_certificate
C15_Witness ==
    /\ th[1].at = "done" /\ th[1].call = "generate_server_cert"
    /\ th[2].at = "check" /\ th[2].arg.t = "CERTIFICATE"

----------------------------------------------------------------------------
(* C16: regenerate_ca runs beside the readers without a lock.  After its key
   assignment and before its certificate assignment the service holds the new
   private key with the old certificate; after ca.crt is rewritten and before
   ca.key is, the directory holds the new certificate with the old key.  A
   leaf is signed with a key that is not the key of the CA certificate
   current at that moment exactly when its sign statement runs in the first
   of these windows. *)
IsIssue(call) == call \in {"generate_server_cert", "generate_client_cert"}

SignedWithOtherKey(t) ==
    /\ th[t].at = "done" /\ IsIssue(th[t].call)
    /\ th[t].res.der.signer # th[t].by.pub

C16_HalfReplacedCa ==
    /\ (mode = "regen" /\ pc = "build_cert") => ca_key # ca_cert.pub
    /\ (mode = "regen" /\ pc = "open_key")
        => (crt_file = CertPem(ca_cert) /\ key_file # KeyPem(ca_key))
    /\ \A t \in Threads :
        (th[t].at = "done" /\ IsIssue(th[t].call))
            => (SignedWithOtherKey(t) <=> th[t].when = "build_cert")

\* a thread holds a certificate signed with the new key while the old CA
\* certificate was the current one
C16_Witness ==
    \E t \in Threads :
        /\ SignedWithOtherKey(t)
        /\ th[t].res.der.signer = ca_key
        /\ th[t].by # ca_cert

----------------------------------------------------------------------------
(* C17, as stated: __init__ raises only out of a statement of _create_ca or
   _save_ca. *)
C17_OnlyCreateFailureSurfaces ==
    (op.kind = "init" /\ op.res = "raise") => op.via \in CreateSteps

(* C17, amended: __init__ raises only out of os.makedirs or out of a
   statement of _create_ca or _save_ca; a failed load always goes on to
   _create_ca and is never what the caller gets; and a raise ends the
   construction, nothing is tried again. *)
C17_LoadFailureNotSurfaced ==
    [][ /\ (op'.kind = "init" /\ op'.res = "raise" /\ op' # op)
            => /\ \/ pc \in CreateSteps /\ op'.via = pc
                  \/ pc = "down" /\ op'.via = "makedirs"
               /\ pc' = "down"
        /\ pc = "load_except"
            => \/ pc' = "gen_key" /\ op' = op
               \/ pc' = "down" /\ op'.kind = "stop" ]_vars

\* both files were there, the load failed, and __init__ returned with a
\* created CA
C17_Witness ==
    /\ op.kind = "init" /\ op.via = "create"
    /\ exists(pre.crt) /\ exists(pre.key)
    /\ HoldsCa

----------------------------------------------------------------------------
(* C18: for the CA certificate and for every leaf handed out, not_after -
   not_before is the validity asked for, to within 2 seconds, and the
   not_before of a leaf is the time of the call. *)
WithinTolerance(cert, days) ==
    /\ cert.na - cert.nb - days * DayLen >= 0 - 2
    /\ cert.na - cert.nb - days * DayLen <= 2

C18_ValidityAsRequested ==
    /\ ca_cert # NoCert => WithinTolerance(ca_cert, CaDays)
    /\ \A h \in held :
        WithinTolerance(h.cert, h.req.days) /\ h.cert.nb = h.at

----------------------------------------------------------------------------
(* C19, as stated: get_ca_info reports is_ca = true and the configured CA
   common name; the CA certificate is self-signed with CA=true and key usage
   keyCertSign + cRLSign only; every leaf reports the name asked for and
   is_ca = false, has no Basic Constraints and no keyCertSign, and has
   extended key usage serverAuth (server) or clientAuth (client). *)
CaCertificateShape ==
    ca_cert # NoCert
        => /\ ca_cert.issuer = ca_cert.subject
           /\ ca_cert.signer = ca_cert.pub
           /\ ca_cert.bc = "ca=true,path_length=1"
           /\ ca_cert.ku = "keyCertSign,cRLSign"

LeafShape(h) ==
    LET info == cert_to_info(h.cert)
    IN  /\ info.ok
        /\ info.val.subject_cn = h.req.name
        /\ info.val.is_ca = FALSE
        /\ h.cert.bc = ""
        /\ h.cert.ku = "digitalSignature,keyEncipherment"
        /\ h.cert.eku = IF h.req.kind = "server" THEN "serverAuth" ELSE "clientAuth"

C19_RoleAttributes ==
    /\ op.kind = "get_ca_info"
        => (op.res = "ok" /\ op.out.is_ca = TRUE /\ op.out.subject_cn = ca_cn)
    /\ CaCertificateShape
    /\ \A h \in held : LeafShape(h)

(* C19, amended: the common name get_ca_info reports is the one of the CA
   certificate the service holds: the configured name when this service
   created the CA, the name in ca.crt when it loaded the CA.  The rest as
   stated. *)
C19_RoleAttributesOfHeldCa ==
    /\ op.kind = "get_ca_info"
        => /\ op.res = "ok" /\ op.out.is_ca = TRUE
           /\ origin = "create" => op.out.subject_cn = ca_cn
           /\ origin = "load" => op.out.subject_cn = crt_file.der.subject.cn
    /\ CaCertificateShape
    /\ \A h \in held : LeafShape(h)

\* get_ca_info is read on a loaded CA after a server and a client leaf were
\* handed out
C19_Witness ==
    /\ op.kind = "get_ca_info" /\ origin = "load"
    /\ \E h \in held : h.req.kind = "server"
    /\ \E h \in held : h.req.kind = "client"

----------------------------------------------------------------------------
(* C20: a generate_server_cert or generate_client_cert call that fails
   raises CertificateGenerationError, hands back neither certificate nor
   key, and adds nothing to what callers hold. *)
C20_GenerationErrorOnly ==
    (IsIssue(op.kind) /\ op.res = "raise")
        => /\ op.via = "CertificateGenerationError"
           /\ op.arg = Absent
           /\ Cardinality(held) <= MaxLeaf

(* C21: whenever an initialization has returned, also one that follows a
   process that ended in the middle of create or regenerate, the service
   holds a CA certificate and the private key of that certificate's public
   key. *)
C21_RestartHoldsMatchingPair ==
    (pc = "ready" /\ op.kind = "init")
        => HoldsCa /\ ca_cert.pub = ca_key

(* C22: when regenerate_ca has raised, at whichever statement, the service
   still holds the CA of the last create or regenerate that completed: the
   certificate in memory is that CA's, the key in memory is its private key,
   and ca.crt and ca.key hold that certificate and that key. *)
C22_FailedRegenerateKeepsCa ==
    (pc = "ready" /\ op.kind = "regenerate_ca" /\ op.res = "raise")
        => /\ get_ca_fingerprint_of(ca_cert) = made.fp
           /\ ca_cert.pub = ca_key
           /\ crt_file = CertPem(ca_cert)
           /\ key_file = KeyPem(ca_key)

(* C23: in no state, the statements of create and regenerate included, does
   ca.key hold a private key while its mode is anything but owner
   read/write. *)
C23_KeyNeverUnderUmaskMode ==
    key_file.t = "RSA PRIVATE KEY" => key_mode = "0600"

(* C24: when two processes have each constructed a service on a directory
   that held neither ca.crt nor ca.key when each began, and both
   constructions have returned, the two hold the same CA certificate and the
   same CA key, and ca.crt and ca.key hold that certificate and that key. *)
C24_TwoInstancesOneCa ==
    (/\ pc = "ready" /\ peer.pc = "ready"
     /\ ~exists(pre.crt) /\ ~exists(pre.key)
     /\ ~exists(peer.pre.crt) /\ ~exists(peer.pre.key))
        => /\ ca_cert = peer.ca_cert
           /\ ca_key = peer.ca_key
           /\ crt_file = CertPem(ca_cert)
           /\ key_file = KeyPem(ca_key)

(* C25: whenever a service exists and neither create nor regenerate is
   running, whatever calls have returned or raised before, ca.crt holds the
   PEM of the CA certificate in memory and ca.key holds the PEM of the CA
   key in memory. *)
C25_DiskIsMemory ==
    pc = "ready"
        => /\ crt_file = CertPem(ca_cert)
           /\ key_file = KeyPem(ca_key)

(* C26: get_cert_info returns a CertificateInfo for every PEM certificate
   whose subject has a Common Name, whatever its issuer name is, so also
   when the issuer name has no Common Name. *)
HasSubjectCn(cert_pem) ==
    cert_pem.t = "CERTIFICATE" /\ cert_pem.der.subject.cn # ""

C26_InfoForEverySubjectCn ==
    (op.kind = "get_cert_info" /\ HasSubjectCn(op.arg))
        => (op.res = "ok" /\ op.out.subject_cn = op.arg.der.subject.cn)

(* C27, as stated: the statement of regenerate_ca that builds the new CA
   certificate replaces the key and the serial number and leaves the
   subject name as it was, so every certificate the replaced CA issued
   still names the subject of the new CA as its issuer, and
   verify_certificate gets past the issuer comparison and rejects it at the
   signature check. *)
RegenerateBuilds ==
    mode = "regen" /\ pc = "build_cert" /\ pc' = "open_crt"

\* the certificates handed out under the CA certificate `cacert`
IssuedBy(cacert) == {h \in held : h.by = cacert}

\* verify_certificate compares the issuer, finds it equal, and the
\* certificate is turned down by the statement that checks the signature
RejectedAtSignature(cert, cacert) ==
    /\ cert.issuer = cacert.subject
    /\ verify_try(CertPem(cert), cacert, now) = "raise"
    /\ verify_certificate(CertPem(cert), cacert, now) = "false"

C27_RegenerateKeepsSubject ==
    [][RegenerateBuilds
        => /\ ca_cert'.pub # ca_cert.pub
           /\ ca_cert'.serial # ca_cert.serial
           /\ ca_cert'.subject = ca_cert.subject
           /\ \A h \in IssuedBy(ca_cert) :
                RejectedAtSignature(h.cert, ca_cert')]_vars

(* C27, amended: regenerate_ca replaces the key and the serial number and
   builds the subject name from the names the running service was
   constructed with; the subject name stays as it was, and the certificates
   of the replaced CA get past the issuer comparison and are rejected at the
   signature check, when the replaced CA carries those configured names
   (always so when this configuration created it). *)
C27_RegenerateKeepsConfiguredSubject ==
    [][RegenerateBuilds
        => /\ ca_cert'.pub # ca_cert.pub
           /\ ca_cert'.serial # ca_cert.serial
           /\ ca_cert'.subject = CaSubject(ca_cn)
           /\ ca_cert.subject = CaSubject(ca_cn)
                => /\ ca_cert'.subject = ca_cert.subject
                   /\ \A h \in IssuedBy(ca_cert) :
                        RejectedAtSignature(h.cert, ca_cert')]_vars

\* a regenerate_ca has completed on a service that had handed out a
\* certificate under the CA it replaced, with the subject name kept
C27_Witness ==
    /\ op.kind = "regenerate_ca" /\ op.via = "create"
    /\ \E h \in held :
        /\ h.by # ca_cert
        /\ h.by.subject = ca_cert.subject
        /\ h.by.pub # ca_cert.pub
        /\ RejectedAtSignature(h.cert, ca_cert)

(* C28: over any sequence of start() and stop() calls, at no time do two
   tail threads read and process lines: start() on a running service creates
   no thread, and after a stop() whose join timed out and a further start()
   the earlier thread is not at work beside the new one. *)
AtWork(t) == tails[t].at \in {"readline", "append", "check"}

C28_OneTailThread ==
    Cardinality({t \in Tails : AtWork(t)}) <= 1

(* C29: every _process_line call that returns leaves fewer than batch_size
   events in the buffer, every _flush_buffer call that returns leaves the
   buffer empty, whether the bulk request succeeded or failed, and no event
   is in two bulk requests of the same thread. *)
ProcessLineReturns(t) ==
    tails[t].at \in {"readline", "check", "flush", "bulk"} /\ tails'[t].at = "ret"

FlushBufferReturns(t) ==
    tails[t].at \in {"flush", "bulk"} /\ tails'[t].at = tails[t].back

StopFlushReturns ==
    caller.at \in {"flush", "bulk"} /\ caller'.at = "idle"

NoEventTwiceByOneThread == bulk.twice = {}

C29_BestEffortBatching ==
    [][/\ \A t \in Tails :
            /\ ProcessLineReturns(t) => Len(eve'.event_buffer) < BatchSize
            /\ FlushBufferReturns(t) => eve'.event_buffer = <<>>
       /\ StopFlushReturns => eve'.event_buffer = <<>>
       /\ NoEventTwiceByOneThread']_vars

====
